---------------------------- MODULE Spec2Model ----------------------------
(***************************************************************************)
(* A model of gostatus' workspace pipeline (workspace.go): three pools of  *)
(* goroutines (uniqueWorker, processFilterWorker, presenterWorker) joined  *)
(* by buffered channels, the mutex-guarded repos map, the three goroutines *)
(* that wait on a sync.WaitGroup and close the downstream channels, and    *)
(* computeVCSState.                                                        *)
(***************************************************************************)
EXTENDS Naturals, Sequences, FiniteSets, Bags, TLC

(***************************************************************************)
(* Bounds of the model.                                                    *)
(***************************************************************************)
\* Number of goroutines per stage (the package-level `parallelism`).
Parallelism == 2
\* Capacity of every channel; the code makes them with 64, scaled down here
\* so that a full channel (a blocked sender) is reached with a short input.
ChanCap == 1
\* Largest number of import paths the producer sends before it closes.
MaxSend == 2
\* Largest number of unresolvable import paths in the input of a caller that
\* reads Errors only after Statuses is closed.
MaxBad == 3
\* Number of goroutines per stage in the runs whose caller never receives
\* from Statuses.
StallParallelism == 1

Workers == 1..Parallelism

(***************************************************************************)
(* The external collaborators, as tables over a small universe of import   *)
(* paths: build.Import, vcs.FromDir and vcsstate.NewVCS.                   *)
(***************************************************************************)
\* The universe of import paths, in the order the producer walks them.
PathList == <<"a/x", "a/y", "b/x", "b/y", "c", "./c", "fmt", "bad">>
Paths == {PathList[k] : k \in 1..Len(PathList)}

\* build.Import(importPath, wd, FindOnly|IgnoreVendor) returns an error.
ImportFails(i) == i = "bad"
\* bpkg.Goroot
Goroot(i) == i = "fmt"
\* bpkg.Dir
Dir(i) == "/gopath/src/" \o (IF i = "./c" THEN "c" ELSE i)
\* bpkg.ImportPath
ImportPath(i) == IF i = "./c" THEN "c" ELSE i
\* vcs.FromDir(bpkg.Dir, bpkg.SrcRoot): the VCS command found, "" for the error.
FromDirCmd(i) ==
    CASE i \in {"a/x", "a/y"} -> "git"
      [] i \in {"b/x", "b/y"} -> "bzr"
      [] OTHER -> ""
\* vcs.FromDir(bpkg.Dir, bpkg.SrcRoot): the repository root.
FromDirRoot(i) ==
    CASE i \in {"a/x", "a/y"} -> "a"
      [] i \in {"b/x", "b/y"} -> "b"
      [] OTHER -> ""
\* vcsstate.NewVCS(vcsCmd): the kinds vcsstate has an implementation for.
SupportedVCS == {"git", "hg"}

Nil == "nil"
NoError == ""

(***************************************************************************)
(* The Repo record.                                                        *)
(***************************************************************************)
ZeroLocal ==
    [Status |-> "", Branch |-> "", Stash |-> "", RemoteURL |-> "",
     Revision |-> "", ContainsRemoteRevision |-> FALSE]
ZeroRemote ==
    [Branch |-> "", Revision |-> "", RepoURL |-> "", NotFound |-> Nil,
     ContainsLocalRevision |-> FALSE]
\* &Repo{Path: ..., Root: ..., vcs: ..., vcsError: ...}
NewRepo(path, root, vcs, vcsError) ==
    [Path |-> path, Root |-> root, vcs |-> vcs, vcsError |-> vcsError,
     Local |-> ZeroLocal, Remote |-> ZeroRemote]

\* The branch of uniqueWorker an import path takes after build.Import.
Classify(i) ==
    CASE ImportFails(i) -> "importError"
      [] Goroot(i) -> "goroot"
      [] FromDirCmd(i) = "" -> "noVCS"
      [] FromDirCmd(i) \notin SupportedVCS -> "unsupported"
      [] OTHER -> "supported"
\* The key of w.repos the branch checks and inserts under.
RootKey(i) == IF Classify(i) = "noVCS" THEN ImportPath(i) ELSE FromDirRoot(i)
\* fmt.Errorf("%v not supported by vcsstate: %v", vcsCmd.Name, err)
VcsErrorOf(i) == FromDirCmd(i) \o " not supported by vcsstate"
\* The record the branch constructs when the key is absent.
RepoFor(i) ==
    CASE Classify(i) = "noVCS" -> NewRepo(Dir(i), ImportPath(i), Nil, NoError)
      [] Classify(i) = "unsupported" ->
            NewRepo(Dir(i), FromDirRoot(i), Nil, VcsErrorOf(i))
      [] OTHER -> NewRepo(Dir(i), FromDirRoot(i), FromDirCmd(i), NoError)

(***************************************************************************)
(* computeVCSState.  The adapter's answers are an environment env, one     *)
(* outcome per query: [err |-> NoError, val |-> v] or [err |-> e].  A      *)
(* computation state s holds the record r being written and the log of    *)
(* the adapter queries issued so far.                                      *)
(***************************************************************************)
Ok(v) == [err |-> NoError, val |-> v]
Fail(e) == [err |-> e, val |-> ""]
\* vcsstate.ErrNoRemote
ErrNoRemote == "no remote"
\* Values of type vcsstate.NotFoundError.
NotFoundErrors == {"ref not found: X"}
\* strings.Contains(err.Error(), "not implemented")
ContainsNotImplemented(e) ==
    e \in {"not implemented", "RemoteContains: not implemented for hg"}
\* r.vcs.NoRemoteDefaultBranch()
NoRemoteDefaultBranch(vcs) == IF vcs = "hg" THEN "default" ELSE "master"

Issue(s, call) == [s EXCEPT !.calls = Append(@, call)]

\* if s, err := r.vcs.Status(r.Path); err == nil { r.Local.Status = s }
CvsStatus(s, env) ==
    LET t == Issue(s, <<"Status", s.r.Path>>)
    IN  IF env.Status.err = NoError
        THEN [t EXCEPT !.r.Local.Status = env.Status.val] ELSE t
\* if b, err := r.vcs.Branch(r.Path); err == nil { r.Local.Branch = b }
CvsBranch(s, env) ==
    LET t == Issue(s, <<"Branch", s.r.Path>>)
    IN  IF env.Branch.err = NoError
        THEN [t EXCEPT !.r.Local.Branch = env.Branch.val] ELSE t
\* if s, err := r.vcs.Stash(r.Path); err == nil { r.Local.Stash = s }
CvsStash(s, env) ==
    LET t == Issue(s, <<"Stash", s.r.Path>>)
    IN  IF env.Stash.err = NoError
        THEN [t EXCEPT !.r.Local.Stash = env.Stash.val] ELSE t
\* if remote, err := r.vcs.RemoteURL(r.Path); err == nil { ... }
CvsRemoteURL(s, env) ==
    LET t == Issue(s, <<"RemoteURL", s.r.Path>>)
    IN  IF env.RemoteURL.err = NoError
        THEN [t EXCEPT !.r.Local.RemoteURL = env.RemoteURL.val] ELSE t
\* Mutant of CvsRemoteBranchAndRevision: when the cached default branch is
\* unavailable too, the error is logged and the branch is left as it was.
CvsRemoteBranchAndRevisionWithoutLastFallback(s, env) ==
    LET t == Issue(s, <<"RemoteBranchAndRevision", s.r.Path>>)
        remoteError == env.Remote.err
    IN  CASE remoteError = NoError ->
               [t EXCEPT !.r.Remote.Branch = env.Remote.b,
                         !.r.Remote.Revision = env.Remote.rev]
          [] remoteError = ErrNoRemote ->
               [t EXCEPT !.r.Remote.Branch = NoRemoteDefaultBranch(s.r.vcs)]
          [] remoteError \in NotFoundErrors ->
               [t EXCEPT !.r.Remote.NotFound = remoteError,
                         !.r.Remote.Branch = NoRemoteDefaultBranch(s.r.vcs)]
          [] OTHER ->
               LET u == Issue(t, <<"CachedRemoteDefaultBranch">>)
               IN  IF env.Cached.err = NoError
                   THEN [u EXCEPT !.r.Remote.Branch = env.Cached.val]
                   ELSE u
\* Mutant of CvsRemoteBranchAndRevision: the NotFoundError case is missing,
\* so a ref that is not found is handled like any other error.
CvsRemoteBranchAndRevisionNotFoundUnrecorded(s, env) ==
    LET t == Issue(s, <<"RemoteBranchAndRevision", s.r.Path>>)
        remoteError == env.Remote.err
    IN  CASE remoteError = NoError ->
               [t EXCEPT !.r.Remote.Branch = env.Remote.b,
                         !.r.Remote.Revision = env.Remote.rev]
          [] remoteError = ErrNoRemote ->
               [t EXCEPT !.r.Remote.Branch = NoRemoteDefaultBranch(s.r.vcs)]
          [] OTHER ->
               LET u == Issue(t, <<"CachedRemoteDefaultBranch">>)
               IN  IF env.Cached.err = NoError
                   THEN [u EXCEPT !.r.Remote.Branch = env.Cached.val]
                   ELSE [u EXCEPT !.r.Remote.Branch =
                                     NoRemoteDefaultBranch(s.r.vcs)]
\* The if / else-if chain on r.vcs.RemoteBranchAndRevision(r.Path).
CvsRemoteBranchAndRevision(s, env) ==
    LET t == Issue(s, <<"RemoteBranchAndRevision", s.r.Path>>)
        remoteError == env.Remote.err
    IN  CASE remoteError = NoError ->
               [t EXCEPT !.r.Remote.Branch = env.Remote.b,
                         !.r.Remote.Revision = env.Remote.rev]
          [] remoteError = ErrNoRemote ->
               [t EXCEPT !.r.Remote.Branch = NoRemoteDefaultBranch(s.r.vcs)]
          [] remoteError \in NotFoundErrors ->
               [t EXCEPT !.r.Remote.NotFound = remoteError,
                         !.r.Remote.Branch = NoRemoteDefaultBranch(s.r.vcs)]
          [] OTHER ->
               LET u == Issue(t, <<"CachedRemoteDefaultBranch">>)
               IN  IF env.Cached.err = NoError
                   THEN [u EXCEPT !.r.Remote.Branch = env.Cached.val]
                   ELSE [u EXCEPT !.r.Remote.Branch =
                                     NoRemoteDefaultBranch(s.r.vcs)]
\* if rev, err := r.vcs.LocalRevision(r.Path, r.Remote.Branch); err == nil
CvsLocalRevision(s, env) ==
    LET t == Issue(s, <<"LocalRevision", s.r.Path, s.r.Remote.Branch>>)
        out == env.LocalRevision[s.r.Remote.Branch]
    IN  IF out.err = NoError
        THEN [t EXCEPT !.r.Local.Revision = out.val] ELSE t
\* Mutant of CvsContains: the r.Remote.Revision != "" test is missing.
CvsContainsUnguarded(s, env) ==
    LET t == Issue(s, <<"Contains", s.r.Path, s.r.Remote.Revision,
                        s.r.Remote.Branch>>)
    IN  IF env.Contains.err = NoError
        THEN [t EXCEPT !.r.Local.ContainsRemoteRevision = env.Contains.val]
        ELSE t
\* if r.Remote.Revision != "" { if c, err := r.vcs.Contains(...); ... }
CvsContains(s, env) ==
    IF s.r.Remote.Revision # ""
    THEN LET t == Issue(s, <<"Contains", s.r.Path, s.r.Remote.Revision,
                             s.r.Remote.Branch>>)
         IN  IF env.Contains.err = NoError
             THEN [t EXCEPT !.r.Local.ContainsRemoteRevision = env.Contains.val]
             ELSE t
    ELSE s
\* Mutant of CvsRemoteContains: on "not implemented" the answer is inferred
\* whatever the two revisions are.
CvsRemoteContainsAlwaysInferring(s, env) ==
    IF s.r.Local.Revision # ""
    THEN LET t == Issue(s, <<"RemoteContains", s.r.Path, s.r.Local.Revision,
                             s.r.Remote.Branch>>)
         IN  IF env.RemoteContains.err = NoError
             THEN [t EXCEPT !.r.Remote.ContainsLocalRevision =
                               env.RemoteContains.val]
             ELSE IF ContainsNotImplemented(env.RemoteContains.err)
                  THEN [t EXCEPT !.r.Remote.ContainsLocalRevision =
                                    ~s.r.Local.ContainsRemoteRevision]
                  ELSE t
    ELSE s
\* if r.Local.Revision != "" { if c, err := r.vcs.RemoteContains(...) ... }
CvsRemoteContains(s, env) ==
    IF s.r.Local.Revision # ""
    THEN LET t == Issue(s, <<"RemoteContains", s.r.Path, s.r.Local.Revision,
                             s.r.Remote.Branch>>)
         IN  IF env.RemoteContains.err = NoError
             THEN [t EXCEPT !.r.Remote.ContainsLocalRevision =
                               env.RemoteContains.val]
             ELSE IF /\ ContainsNotImplemented(env.RemoteContains.err)
                     /\ s.r.Local.Revision # s.r.Remote.Revision
                     /\ s.r.Remote.Revision # ""
                  THEN [t EXCEPT !.r.Remote.ContainsLocalRevision =
                                    ~s.r.Local.ContainsRemoteRevision]
                  ELSE t
    ELSE s
\* if rr, err := vcs.RepoRootForImportPath(r.Root, false); err == nil
CvsRepoURL(s, env) ==
    LET t == Issue(s, <<"RepoRootForImportPath", s.r.Root>>)
    IN  IF env.RepoRoot.err = NoError
        THEN [t EXCEPT !.r.Remote.RepoURL = env.RepoRoot.val] ELSE t

\* Mutant of CvsSteps: the local revision is asked for before the remote
\* branch and revision.
CvsStepsLocalRevisionFirst ==
    <<"Status", "Branch", "Stash", "RemoteURL", "LocalRevision",
      "RemoteBranchAndRevision", "Contains", "RemoteContains", "RepoURL">>
\* The queries of computeVCSState in program order.
CvsSteps ==
    <<"Status", "Branch", "Stash", "RemoteURL", "RemoteBranchAndRevision",
      "LocalRevision", "Contains", "RemoteContains", "RepoURL">>
CvsStep(name, s, env) ==
    CASE name = "Status" -> CvsStatus(s, env)
      [] name = "Branch" -> CvsBranch(s, env)
      [] name = "Stash" -> CvsStash(s, env)
      [] name = "RemoteURL" -> CvsRemoteURL(s, env)
      [] name = "RemoteBranchAndRevision" -> CvsRemoteBranchAndRevision(s, env)
      [] name = "LocalRevision" -> CvsLocalRevision(s, env)
      [] name = "Contains" -> CvsContains(s, env)
      [] name = "RemoteContains" -> CvsRemoteContains(s, env)
      [] OTHER -> CvsRepoURL(s, env)
RECURSIVE CvsRun(_, _, _)
CvsRun(k, s, env) ==
    IF k > Len(CvsSteps) THEN s ELSE CvsRun(k + 1, CvsStep(CvsSteps[k], s, env), env)
\* Mutant of ComputeVCSState: the r.vcs == nil test is missing.
ComputeVCSStateWithoutNilTest(r, env) == CvsRun(1, [r |-> r, calls |-> <<>>], env)
\* computeVCSState(r): returns at once when r.vcs == nil.
ComputeVCSState(r, env) ==
    IF r.vcs = Nil
    THEN [r |-> r, calls |-> <<>>]
    ELSE CvsRun(1, [r |-> r, calls |-> <<>>], env)

(***************************************************************************)
(* The caller-supplied collaborators and the adapter answers the pipeline  *)
(* is run against.                                                         *)
(***************************************************************************)
BranchNames == {"", "master", "default", "dev", "main"}
\* Every query answers; the working copy is dirty and behind its remote.
EnvDirty ==
    [Status |-> Ok(" M file.go"), Branch |-> Ok("dev"), Stash |-> Ok("stash@{0}"),
     RemoteURL |-> Ok("https://example.org/a"),
     Remote |-> [err |-> NoError, b |-> "master", rev |-> "r2"],
     Cached |-> Ok("master"),
     LocalRevision |-> [b \in BranchNames |-> IF b = "" THEN Fail("no branch") ELSE Ok("r1")],
     Contains |-> [err |-> NoError, val |-> FALSE],
     RemoteContains |-> [err |-> NoError, val |-> TRUE],
     RepoRoot |-> Ok("https://example.org/a")]
\* Every query answers; the working copy is clean (an empty status).
EnvClean == [EnvDirty EXCEPT !.Status = Ok(""), !.Stash = Ok("")]
\* Every query fails.
EnvFailing ==
    [Status |-> Fail("exit status 128"), Branch |-> Fail("exit status 128"),
     Stash |-> Fail("exit status 128"), RemoteURL |-> Fail("exit status 128"),
     Remote |-> [err |-> "exit status 128", b |-> "", rev |-> ""],
     Cached |-> Fail("exit status 128"),
     LocalRevision |-> [b \in BranchNames |-> Fail("exit status 128")],
     Contains |-> [err |-> "exit status 128", val |-> FALSE],
     RemoteContains |-> [err |-> "exit status 128", val |-> FALSE],
     RepoRoot |-> Fail("unrecognized import path")]
PipeEnvs == {EnvDirty, EnvClean, EnvFailing}

\* w.shouldShow: show what is not under a supported VCS, or is dirty.
ShouldShow(r) == r.vcs = Nil \/ r.Local.Status # ""
\* w.presenter
Presenter(r) == r.Root \o ":" \o r.Local.Status \o ":" \o r.vcsError

(***************************************************************************)
(* The state of the pipeline.                                              *)
(***************************************************************************)
VARIABLES
    batch,      \* the import paths the producer is going to send, in order
    nsent,      \* how many of them it has sent
    ch,         \* the contents of each channel
    closed,     \* whether each channel has been closed
    wg,         \* the counter of each stage's sync.WaitGroup
    clPc,       \* the position of each stage's wg.Wait()/close goroutine
    reposMu,    \* w.reposMu: 0 when free, else the uniqueWorker holding it
    repos,      \* w.repos: root |-> pointer into heap
    heap,       \* every Repo allocated so far; a pointer is an index
    uw,         \* the locals of each uniqueWorker
    pf,         \* the locals of each processFilterWorker
    pr,         \* the locals of each presenterWorker
    panicked,   \* a send on a closed channel or a second close happened
    got,        \* what the caller has received from Statuses and Errors
    hist,       \* history: what was taken, sent, computed and filtered
    cvs         \* a single computeVCSState call run query by query

vars == <<batch, nsent, ch, closed, wg, clPc, reposMu, repos, heap, uw, pf, pr,
          panicked, got, hist, cvs>>

Chans == {"ImportPaths", "unique", "processedFiltered", "Statuses", "Errors"}
Stages == {"unique", "processFilter", "presenter"}

RECURSIVE Ascending(_)
Ascending(S) ==
    IF S = {} THEN <<>>
    ELSE LET m == CHOOSE k \in S : \A j \in S : k <= j
         IN  <<PathList[m]>> \o Ascending(S \ {m})
\* The inputs: up to MaxSend distinct import paths.
Batches ==
    {Ascending(S) : S \in {T \in SUBSET (1..Len(PathList)) : Cardinality(T) <= MaxSend}}

CvsIdle == [pc |-> 0]
HistInit ==
    [taken |-> EmptyBag, errs |-> EmptyBag, uniq |-> <<>>, calls |-> <<>>,
     queries |-> <<>>, shown |-> <<>>, status |-> <<>>]

\* NewWorkspace: the channels made, the workers started, wg.Add(1) for each.
PipeInitOf(n) ==
    /\ nsent = 0
    /\ ch = [c \in Chans |-> <<>>]
    /\ closed = [c \in Chans |-> FALSE]
    /\ wg = [s \in Stages |-> n]
    /\ clPc = [s \in Stages |-> "wait"]
    /\ reposMu = 0
    /\ repos = [k \in {} |-> 0]
    /\ heap = <<>>
    /\ uw = [w \in 1..n |-> [pc |-> "recv", importPath |-> "", ok |-> FALSE, pkg |-> 0]]
    /\ pf = [w \in 1..n |-> [pc |-> "recv", repo |-> 0]]
    /\ pr = [w \in 1..n |-> [pc |-> "recv", repo |-> 0]]
    /\ panicked = FALSE
    /\ got = [Statuses |-> EmptyBag, Errors |-> EmptyBag]
    /\ hist = HistInit
\* NewWorkspace with the package's parallelism.
PipeInit == PipeInitOf(Parallelism)
Init ==
    /\ batch \in Batches
    /\ PipeInit
    /\ cvs = CvsIdle

(***************************************************************************)
(* Channel operations.                                                     *)
(***************************************************************************)
\* Mutant of Send: the buffer grows instead of the sender blocking.
SendNeverBlocking(c, v) ==
    IF closed[c]
    THEN /\ panicked' = TRUE
         /\ ch' = ch
    ELSE /\ ch' = [ch EXCEPT ![c] = Append(@, v)]
         /\ panicked' = panicked
\* ch <- v: panics on a closed channel, blocks while the buffer is full.
Send(c, v) ==
    IF closed[c]
    THEN /\ panicked' = TRUE
         /\ ch' = ch
    ELSE /\ Len(ch[c]) < ChanCap
         /\ ch' = [ch EXCEPT ![c] = Append(@, v)]
         /\ panicked' = panicked
\* close(ch): panics on a closed channel.
Close(c) ==
    IF closed[c]
    THEN /\ panicked' = TRUE
         /\ closed' = closed
    ELSE /\ closed' = [closed EXCEPT ![c] = TRUE]
         /\ panicked' = panicked
\* for v := range ch: a value is ready.
CanRecv(c) == ch[c] # <<>>
\* for v := range ch: the channel is closed and drained, the loop ends.
Drained(c) == ch[c] = <<>> /\ closed[c]
Recv(c) == ch' = [ch EXCEPT ![c] = Tail(@)]
\* The process is alive: a panic in any goroutine ends it.
Running == ~panicked
\* defer wg.Done()
Done(stage) == wg' = [wg EXCEPT ![stage] = @ - 1]

(***************************************************************************)
(* The producer of import paths (the caller of NewWorkspace).              *)
(***************************************************************************)
ProducerSend ==
    /\ Running
    /\ nsent < Len(batch)
    /\ Send("ImportPaths", batch[nsent + 1])
    /\ nsent' = nsent + 1
    /\ UNCHANGED <<batch, closed, wg, clPc, reposMu, repos, heap, uw, pf, pr,
                   got, hist, cvs>>
ProducerClose ==
    /\ Running
    /\ nsent = Len(batch)
    /\ ~closed["ImportPaths"]
    /\ Close("ImportPaths")
    /\ UNCHANGED <<batch, nsent, ch, wg, clPc, reposMu, repos, heap, uw, pf, pr,
                   got, hist, cvs>>

(***************************************************************************)
(* uniqueWorker.                                                           *)
(***************************************************************************)
\* What a uniqueWorker leaves alone while it only receives or sends.
UWFrame == <<batch, nsent, closed, clPc, reposMu, repos, heap, pf, pr, got, cvs>>
Taken(i) == [hist EXCEPT !.taken = @ (+) SetToBag({i})]

\* The error build.Import returns for import path i.
ImportError(i) == [kind |-> "import", about |-> i]
\* importPath := <-w.ImportPaths; build.Import fails.
UWRecvImportError(w) ==
    /\ Running
    /\ uw[w].pc = "recv"
    /\ CanRecv("ImportPaths")
    /\ Classify(Head(ch["ImportPaths"])) = "importError"
    /\ Recv("ImportPaths")
    /\ uw' = [uw EXCEPT ![w].pc = "sendErr", ![w].importPath = Head(ch["ImportPaths"])]
    /\ hist' = Taken(Head(ch["ImportPaths"]))
    /\ UNCHANGED <<wg, panicked>>
    /\ UNCHANGED UWFrame
\* Mutant of UWSendError: the worker returns after reporting the error.
UWSendErrorThenReturn(w) ==
    /\ Running
    /\ uw[w].pc = "sendErr"
    /\ Send("Errors", ImportError(uw[w].importPath))
    /\ uw' = [uw EXCEPT ![w].pc = "done"]
    /\ hist' = [hist EXCEPT !.errs = @ (+) SetToBag({ImportError(uw[w].importPath)})]
    /\ Done("unique")
    /\ UNCHANGED UWFrame
\* w.Errors <- err; continue
UWSendError(w) ==
    /\ Running
    /\ uw[w].pc = "sendErr"
    /\ Send("Errors", ImportError(uw[w].importPath))
    /\ uw' = [uw EXCEPT ![w].pc = "recv"]
    /\ hist' = [hist EXCEPT !.errs = @ (+) SetToBag({ImportError(uw[w].importPath)})]
    /\ UNCHANGED wg
    /\ UNCHANGED UWFrame
\* Mutant of UWRecvGoroot: a GOROOT package is reported as an error.
UWRecvGorootReported(w) ==
    /\ Running
    /\ uw[w].pc = "recv"
    /\ CanRecv("ImportPaths")
    /\ Classify(Head(ch["ImportPaths"])) = "goroot"
    /\ Recv("ImportPaths")
    /\ uw' = [uw EXCEPT ![w].pc = "sendErr", ![w].importPath = Head(ch["ImportPaths"])]
    /\ hist' = Taken(Head(ch["ImportPaths"]))
    /\ UNCHANGED <<wg, panicked>>
    /\ UNCHANGED UWFrame
\* importPath := <-w.ImportPaths; bpkg.Goroot: continue
UWRecvGoroot(w) ==
    /\ Running
    /\ uw[w].pc = "recv"
    /\ CanRecv("ImportPaths")
    /\ Classify(Head(ch["ImportPaths"])) = "goroot"
    /\ Recv("ImportPaths")
    /\ uw' = [uw EXCEPT ![w].importPath = Head(ch["ImportPaths"])]
    /\ hist' = Taken(Head(ch["ImportPaths"]))
    /\ UNCHANGED <<wg, panicked>>
    /\ UNCHANGED UWFrame
\* importPath := <-w.ImportPaths; vcs.FromDir and vcsstate.NewVCS pick one of
\* the three branches that go on to w.reposMu.Lock().
UWRecvRepo(w) ==
    /\ Running
    /\ uw[w].pc = "recv"
    /\ CanRecv("ImportPaths")
    /\ Classify(Head(ch["ImportPaths"])) \in {"noVCS", "unsupported", "supported"}
    /\ Recv("ImportPaths")
    /\ uw' = [uw EXCEPT ![w].pc = "lock", ![w].importPath = Head(ch["ImportPaths"])]
    /\ hist' = Taken(Head(ch["ImportPaths"]))
    /\ UNCHANGED <<wg, panicked>>
    /\ UNCHANGED UWFrame
\* Mutant of Lock: the mutex is taken without waiting for it to be free.
LockWithoutWaiting(w) == reposMu' = w
\* w.reposMu.Lock()
Lock(w) == reposMu = 0 /\ reposMu' = w
\* w.reposMu.Unlock()
Unlock(w) == reposMu' = 0
\* w.reposMu.Lock(); _, ok := w.repos[key]
UWLockCheck(w) ==
    /\ Running
    /\ uw[w].pc = "lock"
    /\ Lock(w)
    /\ uw' = [uw EXCEPT ![w].pc = "insert",
                        ![w].ok = RootKey(uw[w].importPath) \in DOMAIN repos]
    /\ UNCHANGED <<batch, nsent, ch, closed, wg, clPc, repos, heap, pf, pr,
                   panicked, got, hist, cvs>>
\* w.repos[key] = pkg
MapStore(m, key, p) == [k \in DOMAIN m \cup {key} |-> IF k = key THEN p ELSE m[k]]
\* A fresh record enters the heap; its history starts empty.
Allocated ==
    [hist EXCEPT !.uniq = Append(@, 0), !.calls = Append(@, 0),
                 !.queries = Append(@, <<>>), !.shown = Append(@, <<>>),
                 !.status = Append(@, 0)]
\* Mutant of UWInsertUnlock: when the key is present, pkg is set to the
\* record the map already holds, so it is forwarded again.
UWInsertUnlockForwardingExisting(w) ==
    /\ Running
    /\ uw[w].pc = "insert"
    /\ IF ~uw[w].ok
       THEN /\ heap' = Append(heap, RepoFor(uw[w].importPath))
            /\ repos' = MapStore(repos, RootKey(uw[w].importPath), Len(heap) + 1)
            /\ uw' = [uw EXCEPT ![w].pc = "send", ![w].pkg = Len(heap) + 1]
            /\ hist' = Allocated
       ELSE /\ uw' = [uw EXCEPT ![w].pc = "send",
                                ![w].pkg = repos[RootKey(uw[w].importPath)]]
            /\ UNCHANGED <<heap, repos, hist>>
    /\ Unlock(w)
    /\ UNCHANGED <<batch, nsent, ch, closed, wg, clPc, pf, pr, panicked, got, cvs>>
\* if !ok { pkg = &Repo{...}; w.repos[key] = pkg }; w.reposMu.Unlock()
UWInsertUnlock(w) ==
    /\ Running
    /\ uw[w].pc = "insert"
    /\ IF ~uw[w].ok
       THEN /\ heap' = Append(heap, RepoFor(uw[w].importPath))
            /\ repos' = MapStore(repos, RootKey(uw[w].importPath), Len(heap) + 1)
            /\ uw' = [uw EXCEPT ![w].pc = "send", ![w].pkg = Len(heap) + 1]
            /\ hist' = Allocated
       ELSE /\ uw' = [uw EXCEPT ![w].pc = "recv", ![w].pkg = 0]
            /\ UNCHANGED <<heap, repos, hist>>
    /\ Unlock(w)
    /\ UNCHANGED <<batch, nsent, ch, closed, wg, clPc, pf, pr, panicked, got, cvs>>
\* if pkg != nil { w.unique <- pkg }
UWSendUnique(w) ==
    /\ Running
    /\ uw[w].pc = "send"
    /\ Send("unique", uw[w].pkg)
    /\ uw' = [uw EXCEPT ![w].pc = "recv"]
    /\ hist' = [hist EXCEPT !.uniq[uw[w].pkg] = @ + 1]
    /\ UNCHANGED wg
    /\ UNCHANGED UWFrame
\* The range loop ends: w.ImportPaths is closed and drained; wg.Done().
UWExit(w) ==
    /\ Running
    /\ uw[w].pc = "recv"
    /\ Drained("ImportPaths")
    /\ uw' = [uw EXCEPT ![w].pc = "done"]
    /\ Done("unique")
    /\ UNCHANGED <<ch, panicked, hist>>
    /\ UNCHANGED UWFrame
uniqueWorker(w) ==
    \/ UWRecvImportError(w)
    \/ UWSendError(w)
    \/ UWRecvGoroot(w)
    \/ UWRecvRepo(w)
    \/ UWLockCheck(w)
    \/ UWInsertUnlock(w)
    \/ UWSendUnique(w)
    \/ UWExit(w)

(***************************************************************************)
(* processFilterWorker.                                                    *)
(***************************************************************************)
PFFrame == <<batch, nsent, closed, clPc, reposMu, repos, uw, pr, got, cvs>>
\* Mutant of PFRecv: the record goes to the filter without computeVCSState.
PFRecvSkippingCompute(w) ==
    /\ Running
    /\ pf[w].pc = "recv"
    /\ CanRecv("unique")
    /\ Recv("unique")
    /\ pf' = [pf EXCEPT ![w].pc = "filter", ![w].repo = Head(ch["unique"])]
    /\ UNCHANGED <<wg, heap, panicked, hist>>
    /\ UNCHANGED PFFrame
\* repo := <-w.unique
PFRecv(w) ==
    /\ Running
    /\ pf[w].pc = "recv"
    /\ CanRecv("unique")
    /\ Recv("unique")
    /\ pf' = [pf EXCEPT ![w].pc = "compute", ![w].repo = Head(ch["unique"])]
    /\ UNCHANGED <<wg, heap, panicked, hist>>
    /\ UNCHANGED PFFrame
\* w.computeVCSState(repo)
PFCompute(w) ==
    /\ Running
    /\ pf[w].pc = "compute"
    /\ \E env \in PipeEnvs :
         LET res == ComputeVCSState(heap[pf[w].repo], env)
         IN  /\ heap' = [heap EXCEPT ![pf[w].repo] = res.r]
             /\ hist' = [hist EXCEPT !.calls[pf[w].repo] = @ + 1,
                                     !.queries[pf[w].repo] = @ \o res.calls]
    /\ pf' = [pf EXCEPT ![w].pc = "filter"]
    /\ UNCHANGED <<ch, wg, panicked>>
    /\ UNCHANGED PFFrame
\* Mutant of PFFilter: the test is inverted, records that pass are dropped.
PFFilterInverted(w) ==
    /\ Running
    /\ pf[w].pc = "filter"
    /\ pf' = [pf EXCEPT ![w].pc = IF ShouldShow(heap[pf[w].repo]) THEN "recv" ELSE "send"]
    /\ hist' = [hist EXCEPT !.shown[pf[w].repo] = Append(@, ShouldShow(heap[pf[w].repo]))]
    /\ UNCHANGED <<ch, wg, heap, panicked>>
    /\ UNCHANGED PFFrame
\* if !w.shouldShow(repo) { continue }
PFFilter(w) ==
    /\ Running
    /\ pf[w].pc = "filter"
    /\ pf' = [pf EXCEPT ![w].pc = IF ShouldShow(heap[pf[w].repo]) THEN "send" ELSE "recv"]
    /\ hist' = [hist EXCEPT !.shown[pf[w].repo] = Append(@, ShouldShow(heap[pf[w].repo]))]
    /\ UNCHANGED <<ch, wg, heap, panicked>>
    /\ UNCHANGED PFFrame
\* Mutant of PFSend: the record is sent on and then computed (again) by the
\* same worker.
PFSendThenCompute(w) ==
    /\ Running
    /\ pf[w].pc = "send"
    /\ Send("processedFiltered", pf[w].repo)
    /\ pf' = [pf EXCEPT ![w].pc = "compute"]
    /\ UNCHANGED <<wg, heap, hist>>
    /\ UNCHANGED PFFrame
\* w.processedFiltered <- repo
PFSend(w) ==
    /\ Running
    /\ pf[w].pc = "send"
    /\ Send("processedFiltered", pf[w].repo)
    /\ pf' = [pf EXCEPT ![w].pc = "recv"]
    /\ UNCHANGED <<wg, heap, hist>>
    /\ UNCHANGED PFFrame
\* The range loop ends: w.unique is closed and drained; wg.Done().
PFExit(w) ==
    /\ Running
    /\ pf[w].pc = "recv"
    /\ Drained("unique")
    /\ pf' = [pf EXCEPT ![w].pc = "done"]
    /\ Done("processFilter")
    /\ UNCHANGED <<ch, heap, panicked, hist>>
    /\ UNCHANGED PFFrame
processFilterWorker(w) ==
    \/ PFRecv(w)
    \/ PFCompute(w)
    \/ PFFilter(w)
    \/ PFSend(w)
    \/ PFExit(w)

(***************************************************************************)
(* presenterWorker.                                                        *)
(***************************************************************************)
PRFrame == <<batch, nsent, closed, clPc, reposMu, repos, heap, uw, pf, got, cvs>>
\* repo := <-w.processedFiltered
PRRecv(w) ==
    /\ Running
    /\ pr[w].pc = "recv"
    /\ CanRecv("processedFiltered")
    /\ Recv("processedFiltered")
    /\ pr' = [pr EXCEPT ![w].pc = "send", ![w].repo = Head(ch["processedFiltered"])]
    /\ UNCHANGED <<wg, panicked, hist>>
    /\ UNCHANGED PRFrame
\* w.Statuses <- w.presenter(repo)
PRSend(w) ==
    /\ Running
    /\ pr[w].pc = "send"
    /\ Send("Statuses", Presenter(heap[pr[w].repo]))
    /\ pr' = [pr EXCEPT ![w].pc = "recv"]
    /\ hist' = [hist EXCEPT !.status[pr[w].repo] = @ + 1]
    /\ UNCHANGED wg
    /\ UNCHANGED PRFrame
\* Mutant of PRExit: the worker returns without wg.Done().
PRExitWithoutDone(w) ==
    /\ Running
    /\ pr[w].pc = "recv"
    /\ Drained("processedFiltered")
    /\ pr' = [pr EXCEPT ![w].pc = "done"]
    /\ UNCHANGED <<ch, wg, panicked, hist>>
    /\ UNCHANGED PRFrame
\* The range loop ends: w.processedFiltered is closed and drained; wg.Done().
PRExit(w) ==
    /\ Running
    /\ pr[w].pc = "recv"
    /\ Drained("processedFiltered")
    /\ pr' = [pr EXCEPT ![w].pc = "done"]
    /\ Done("presenter")
    /\ UNCHANGED <<ch, panicked, hist>>
    /\ UNCHANGED PRFrame
presenterWorker(w) ==
    \/ PRRecv(w)
    \/ PRSend(w)
    \/ PRExit(w)

(***************************************************************************)
(* The goroutines of NewWorkspace that wait for a stage and close its      *)
(* output.                                                                 *)
(***************************************************************************)
\* Mutant of Wait: returns while one worker is still running.
WaitForAllButOne(stage) == wg[stage] <= 1
\* wg.Wait() returns once the counter is zero.
Wait(stage) == wg[stage] = 0
CloserFrame == <<batch, nsent, ch, wg, reposMu, repos, heap, uw, pf, pr, got, hist, cvs>>
\* wg.Wait(); close(w.unique)
CloseUnique ==
    /\ Running
    /\ clPc["unique"] = "wait"
    /\ Wait("unique")
    /\ Close("unique")
    /\ clPc' = [clPc EXCEPT !["unique"] = "done"]
    /\ UNCHANGED CloserFrame
\* wg.Wait(); close(w.processedFiltered)
CloseProcessedFiltered ==
    /\ Running
    /\ clPc["processFilter"] = "wait"
    /\ Wait("processFilter")
    /\ Close("processedFiltered")
    /\ clPc' = [clPc EXCEPT !["processFilter"] = "done"]
    /\ UNCHANGED CloserFrame
\* wg.Wait(); close(w.Statuses)
CloseStatuses ==
    /\ Running
    /\ clPc["presenter"] = "wait"
    /\ Wait("presenter")
    /\ Close("Statuses")
    /\ clPc' = [clPc EXCEPT !["presenter"] = "closeErrors"]
    /\ UNCHANGED CloserFrame
\* close(w.Errors)
CloseErrors ==
    /\ Running
    /\ clPc["presenter"] = "closeErrors"
    /\ Close("Errors")
    /\ clPc' = [clPc EXCEPT !["presenter"] = "done"]
    /\ UNCHANGED CloserFrame

(***************************************************************************)
(* The caller, receiving from w.Statuses and from w.Errors.                *)
(***************************************************************************)
CallerFrame == <<batch, nsent, closed, wg, clPc, reposMu, repos, heap, uw, pf, pr,
                 panicked, hist, cvs>>
CallerRecvStatus ==
    /\ Running
    /\ CanRecv("Statuses")
    /\ Recv("Statuses")
    /\ got' = [got EXCEPT !.Statuses = @ (+) SetToBag({Head(ch["Statuses"])})]
    /\ UNCHANGED CallerFrame
CallerRecvError ==
    /\ Running
    /\ CanRecv("Errors")
    /\ Recv("Errors")
    /\ got' = [got EXCEPT !.Errors = @ (+) SetToBag({Head(ch["Errors"])})]
    /\ UNCHANGED CallerFrame

Next ==
    \/ ProducerSend
    \/ ProducerClose
    \/ \E w \in Workers : uniqueWorker(w)
    \/ \E w \in Workers : processFilterWorker(w)
    \/ \E w \in Workers : presenterWorker(w)
    \/ CloseUnique
    \/ CloseProcessedFiltered
    \/ CloseStatuses
    \/ CloseErrors
    \/ CallerRecvStatus
    \/ CallerRecvError

Spec == Init /\ [][Next]_vars

\* While some goroutine can take a step, a step is eventually taken: the Go
\* scheduler runs runnable goroutines.  The producer's sends and close and
\* the caller's receives from Statuses and Errors are steps of Next, and a
\* run has finitely many steps, so a step that stays possible is taken.
Fairness == WF_vars(Next)
\* The inputs of the liveness check: two records through every stage, two
\* import paths of one root with a VCS handle, a record beside a failing
\* path, and the two kinds of path that are skipped.
LiveBatches == {<<"b/x", "c">>, <<"a/x", "a/y">>, <<"c", "bad">>, <<"fmt", "bad">>}
LiveInit ==
    /\ batch \in LiveBatches
    /\ PipeInit
    /\ cvs = CvsIdle
LiveSpec == LiveInit /\ [][Next]_vars /\ Fairness

(***************************************************************************)
(* The pipeline with a caller that ranges over w.Statuses until it is      *)
(* closed and only then ranges over w.Errors.                              *)
(***************************************************************************)
\* for err := range w.Errors, placed after the loop over w.Statuses.
CallerRecvErrorAfterStatuses ==
    /\ Drained("Statuses")
    /\ CallerRecvError
SeqNext ==
    \/ ProducerSend
    \/ ProducerClose
    \/ \E w \in Workers : uniqueWorker(w)
    \/ \E w \in Workers : processFilterWorker(w)
    \/ \E w \in Workers : presenterWorker(w)
    \/ CloseUnique
    \/ CloseProcessedFiltered
    \/ CloseStatuses
    \/ CloseErrors
    \/ CallerRecvStatus
    \/ CallerRecvErrorAfterStatuses
\* The input: a repository, a GOROOT package, then n unresolvable import
\* paths (an unresolvable path fails again each time it is given).
SeqBatches == {<<"a/x", "fmt">> \o [k \in 1..n |-> "bad"] : n \in 0..MaxBad}
SeqInit ==
    /\ batch \in SeqBatches
    /\ PipeInit
    /\ cvs = CvsIdle
SpecSeq == SeqInit /\ [][SeqNext]_vars

(***************************************************************************)
(* The pipeline with a caller that never receives from w.Statuses.         *)
(***************************************************************************)
StallWorkers == 1..StallParallelism
StallNext ==
    \/ ProducerSend
    \/ ProducerClose
    \/ \E w \in StallWorkers : uniqueWorker(w)
    \/ \E w \in StallWorkers : processFilterWorker(w)
    \/ \E w \in StallWorkers : presenterWorker(w)
    \/ CloseUnique
    \/ CloseProcessedFiltered
    \/ CloseStatuses
    \/ CloseErrors
    \/ CallerRecvError
\* What the three intermediate channels and the workers of the three stages
\* can hold between them: a buffer each, and one item in hand per worker.
StallBound == 3 * ChanCap + 3 * StallParallelism
\* Packages under no VCS, each its own root: two more than StallBound.
StallRoots == [k \in 1..(StallBound + 2) |-> "r" \o ToString(k)]
\* The inputs: the roots above, and a short input of the other kinds.
StallBatches == {StallRoots, <<"a/x", "fmt", "bad">>}
StallInit ==
    /\ batch \in StallBatches
    /\ PipeInitOf(StallParallelism)
    /\ cvs = CvsIdle
SpecStall == StallInit /\ [][StallNext]_vars

(***************************************************************************)
(* computeVCSState on its own: one record, the adapter's answers drawn     *)
(* from every combination of outcomes, one query per step.                 *)
(***************************************************************************)
PlainOutcomes(v) == {Ok(v), Fail("exit status 128")}
RemoteOutcomes ==
    {[err |-> NoError, b |-> "dev", rev |-> "r2"],
     [err |-> NoError, b |-> "dev", rev |-> ""],
     [err |-> ErrNoRemote, b |-> "", rev |-> ""],
     [err |-> ErrNoRemote, b |-> "dev", rev |-> "r2"],
     [err |-> "ref not found: X", b |-> "", rev |-> ""],
     [err |-> "exit status 128", b |-> "", rev |-> ""]}
LocalRevisionOutcomes ==
    {[b \in BranchNames |-> Fail("exit status 128")],
     [b \in BranchNames |-> Ok("r2")],
     [b \in BranchNames |-> IF b = "" THEN Fail("no branch") ELSE Ok("r1-" \o b)]}
BoolOutcomes(errs) ==
    {[err |-> NoError, val |-> v] : v \in BOOLEAN} \cup {[err |-> e, val |-> FALSE] : e \in errs}
CvsEnvs ==
    [Status : PlainOutcomes(" M file.go"), Branch : PlainOutcomes("dev"),
     Stash : PlainOutcomes("stash@{0}"),
     RemoteURL : PlainOutcomes("https://example.org/a"),
     Remote : RemoteOutcomes, Cached : PlainOutcomes("main"),
     LocalRevision : LocalRevisionOutcomes,
     Contains : BoolOutcomes({"exit status 128"}),
     RemoteContains : BoolOutcomes({"exit status 128", "RemoteContains: not implemented for hg"}),
     RepoRoot : PlainOutcomes("https://example.org/a")]
\* The records computeVCSState is called on: a handle of either kind, an
\* unsupported kind, no VCS.
CvsRepos ==
    {RepoFor("a/x"), NewRepo(Dir("a/x"), "a", "hg", NoError), RepoFor("b/x"), RepoFor("c")}
CvsReturned == Len(CvsSteps) + 1
\* The position after the shouldShow call that follows computeVCSState.
CvsFiltered == CvsReturned + 1
CvsInit ==
    /\ batch = <<>>
    /\ PipeInit
    /\ cvs \in [pc : {1}, s : [r : CvsRepos, calls : {<<>>}], env : CvsEnvs,
                 shown : {<<>>}]
\* if r.vcs == nil { return }
CvsReturnNoVCS ==
    /\ cvs.pc = 1
    /\ cvs.s.r.vcs = Nil
    /\ cvs' = [cvs EXCEPT !.pc = CvsReturned]
    /\ UNCHANGED <<batch, nsent, ch, closed, wg, clPc, reposMu, repos, heap, uw, pf,
                   pr, panicked, got, hist>>
\* Mutant of CvsQuery: computeVCSState returns when the Status query fails.
CvsQueryReturningOnFailure ==
    /\ cvs.pc \in 1..Len(CvsSteps)
    /\ cvs.s.r.vcs # Nil
    /\ cvs' = [cvs EXCEPT !.s = CvsStep(CvsSteps[cvs.pc], cvs.s, cvs.env),
                          !.pc = IF CvsSteps[cvs.pc] = "Status" /\ cvs.env.Status.err # NoError
                                 THEN CvsReturned ELSE @ + 1]
    /\ UNCHANGED <<batch, nsent, ch, closed, wg, clPc, reposMu, repos, heap, uw, pf,
                   pr, panicked, got, hist>>
\* The next query of computeVCSState and the writes that follow it.
CvsQuery ==
    /\ cvs.pc \in 1..Len(CvsSteps)
    /\ cvs.s.r.vcs # Nil
    /\ cvs' = [cvs EXCEPT !.s = CvsStep(CvsSteps[cvs.pc], cvs.s, cvs.env), !.pc = @ + 1]
    /\ UNCHANGED <<batch, nsent, ch, closed, wg, clPc, reposMu, repos, heap, uw, pf,
                   pr, panicked, got, hist>>
\* w.computeVCSState(repo) has returned: if !w.shouldShow(repo) { continue }
CvsFilter ==
    /\ cvs.pc = CvsReturned
    /\ cvs' = [cvs EXCEPT !.pc = CvsFiltered, !.shown = <<ShouldShow(cvs.s.r)>>]
    /\ UNCHANGED <<batch, nsent, ch, closed, wg, clPc, reposMu, repos, heap, uw, pf,
                   pr, panicked, got, hist>>
CvsNext == CvsReturnNoVCS \/ CvsQuery \/ CvsFilter
SpecCVS == CvsInit /\ [][CvsNext]_vars

(***************************************************************************)
(* Properties.                                                             *)
(***************************************************************************)
Ptrs == DOMAIN heap
DiscoveryDone == \A w \in Workers : uw[w].pc = "done"
StateFilterDone == \A w \in Workers : pf[w].pc = "done"
PresentationDone == \A w \in Workers : pr[w].pc = "done"
\* The import paths taken so far that lead to a check-and-insert branch.
TakenRepoPaths ==
    {i \in BagToSet(hist.taken) : Classify(i) \in {"noVCS", "unsupported", "supported"}}

\* Every record allocated is the one the map holds for its root.
OneRecordPerRoot ==
    /\ \A p \in Ptrs : heap[p].Root \in DOMAIN repos /\ repos[heap[p].Root] = p
    /\ \A k \in DOMAIN repos : repos[k] \in Ptrs /\ heap[repos[k]].Root = k
\* A key of the map keeps its record.
NeverOverwritten ==
    \A k \in DOMAIN repos : k \in DOMAIN repos' /\ repos'[k] = repos[k]
\* C1: in every reachable state the repos map and the records allocated hold
\* at most one record per root, and no step of any uniqueWorker replaces the
\* record a root already has.
C1_AtMostOneRecordPerRoot == []OneRecordPerRoot /\ [][NeverOverwritten]_vars
\* Two import paths of one root have both been through a check-and-insert
\* branch, and one record exists.
C1_Witness ==
    /\ {"b/x", "b/y"} \subseteq BagToSet(hist.taken)
    /\ \A w \in Workers : uw[w].pc \in {"recv", "done"}
    /\ Len(heap) = 1

\* C2: a record is sent on unique at most once, two records of one root are
\* never both sent, at most one status per root is produced, and once every
\* uniqueWorker has returned exactly one record has been sent for every root
\* that a taken, resolvable, non-standard import path maps to.
C2_OneEmissionPerRoot ==
    /\ \A p \in Ptrs : hist.uniq[p] <= 1 /\ hist.status[p] <= 1
    /\ \A p, q \in Ptrs :
         (heap[p].Root = heap[q].Root /\ hist.uniq[p] >= 1 /\ hist.uniq[q] >= 1) => p = q
    /\ \A w \in Workers : uw[w].pc = "send" => hist.uniq[uw[w].pkg] = 0
    /\ DiscoveryDone =>
         \A i \in TakenRepoPaths :
            Cardinality({p \in Ptrs : heap[p].Root = RootKey(i) /\ hist.uniq[p] = 1}) = 1
\* Both import paths of root a were taken by Discovery, which has finished.
C2_Witness ==
    /\ {"a/x", "a/y"} \subseteq BagToSet(hist.taken)
    /\ DiscoveryDone
    /\ \E p \in Ptrs : heap[p].Root = "a" /\ hist.uniq[p] = 1

\* C3: no send hits a closed channel and no channel is closed twice; unique
\* is closed only once every uniqueWorker has returned, processedFiltered
\* only once every processFilterWorker has, Statuses only once every
\* presenterWorker has, and Errors only once every uniqueWorker has.
C3_ClosedAfterSenders ==
    /\ ~panicked
    /\ closed["unique"] => DiscoveryDone
    /\ closed["processedFiltered"] => StateFilterDone
    /\ closed["Statuses"] => PresentationDone
    /\ closed["Errors"] => DiscoveryDone /\ closed["Statuses"]
\* All four channels are closed after an error and a status went through.
C3_Witness ==
    /\ \A c \in Chans : closed[c]
    /\ hist.errs # EmptyBag
    /\ \E p \in Ptrs : hist.status[p] = 1

\* Everything has stopped and everything sent to the caller was received.
Finished ==
    /\ DiscoveryDone /\ StateFilterDone /\ PresentationDone
    /\ closed["Statuses"] /\ closed["Errors"]
    /\ \A c \in Chans : ch[c] = <<>>
    /\ got.Errors = hist.errs
    /\ \A p \in Ptrs : CopiesIn(Presenter(heap[p]), got.Statuses) = hist.status[p]
\* C4: with a producer that sends its batch and closes ImportPaths, and a
\* caller that keeps receiving from Statuses and Errors, under weak fairness
\* of every goroutine all workers of the three stages return, Statuses and
\* Errors are closed, and everything sent on them has been received.
C4_Terminates == <>[]Finished
\* A finished run in which the caller received an error and a status.
C4_Witness ==
    /\ Finished
    /\ got.Errors # EmptyBag
    /\ got.Statuses # EmptyBag

\* C5 (the claim as stated): once Discovery has forwarded the record of a
\* root whose VCS kind is unsupported and has finished, an error about that
\* root has been sent on Errors.
C5_UnsupportedReachesErrors ==
    DiscoveryDone =>
      \A p \in Ptrs :
         (heap[p].vcsError # NoError /\ hist.uniq[p] = 1) =>
            \E e \in BagToSet(hist.errs) : e.about = heap[p].Root

\* The uniqueWorkers holding failing import path i whose error is not sent yet.
Reporting(i) == {w \in Workers : uw[w].pc = "sendErr" /\ uw[w].importPath = i}
\* One error per failing import path taken, no record, and no early return.
FailedImportsReported ==
    /\ \A i \in Paths :
         ImportFails(i) =>
            /\ CopiesIn(ImportError(i), hist.errs) + Cardinality(Reporting(i))
                 = CopiesIn(i, hist.taken)
            /\ \A p \in Ptrs : heap[p].Path # Dir(i)
            /\ \A k \in DOMAIN repos : k \notin {i, ImportPath(i)}
    /\ BagToSet(hist.errs) \subseteq {ImportError(i) : i \in {j \in Paths : ImportFails(j)}}
    /\ \A w \in Workers : uw[w].pc = "done" => Drained("ImportPaths")
\* The step of a uniqueWorker that holds a failing import path: it sends the
\* error and is back at the head of its loop, leaving repos and unique alone.
FailedImportStep ==
    \A w \in Workers :
       (uw[w].pc = "sendErr" /\ uw'[w] # uw[w]) =>
          /\ uw'[w].pc = "recv"
          /\ ch'["Errors"] = Append(ch["Errors"], ImportError(uw[w].importPath))
          /\ ch'["unique"] = ch["unique"]
          /\ repos' = repos /\ heap' = heap
\* C6: every import path whose resolution fails gets exactly one error on
\* Errors, no entry in repos, no record and nothing on unique, and the
\* worker that reported it goes back to receive the next import path: a
\* uniqueWorker returns only when ImportPaths is closed and drained.
C6_FailedImportReportedOnce == []FailedImportsReported /\ [][FailedImportStep]_vars
\* The failing path was reported by a worker that is receiving again, and
\* another import path of the batch has produced a record.
C6_Witness ==
    /\ CopiesIn(ImportError("bad"), hist.errs) = 1
    /\ \E w \in Workers : uw[w].importPath = "bad" /\ uw[w].pc = "recv"
    /\ Len(heap) = 1

\* Nothing anywhere is about a GOROOT import path.
NothingForGoroot ==
    \A i \in Paths :
       Goroot(i) =>
          /\ \A p \in Ptrs : heap[p].Path # Dir(i) /\ heap[p].Root # ImportPath(i)
          /\ ImportPath(i) \notin DOMAIN repos
          /\ \A e \in BagToSet(hist.errs) : e.about # i
          /\ \A e \in BagToSet(got.Errors) : e.about # i
\* Every status sent is the presenter's rendering of an allocated record.
StatusesSent ==
    BagToSet(got.Statuses) \cup {ch["Statuses"][k] : k \in DOMAIN ch["Statuses"]}
StatusesAreOfRecords ==
    \A s \in StatusesSent : \E p \in Ptrs : s = Presenter(heap[p]) /\ hist.status[p] >= 1
\* The step that takes a GOROOT import path from ImportPaths changes only
\* that channel (and the worker's importPath local).
GorootStep ==
    (/\ ch["ImportPaths"] # <<>>
     /\ ch'["ImportPaths"] = Tail(ch["ImportPaths"])
     /\ Goroot(Head(ch["ImportPaths"]))) =>
        /\ repos' = repos /\ heap' = heap
        /\ \A c \in Chans \ {"ImportPaths"} : ch'[c] = ch[c]
        /\ hist'.errs = hist.errs
        /\ \A w \in Workers : uw'[w].pc = uw[w].pc
\* C7: taking an import path of the standard distribution leaves repos, the
\* records, unique and Errors unchanged and the worker at the head of its
\* loop; no record, error or status is ever about such a path.
C7_GorootSkippedSilently ==
    [](NothingForGoroot /\ StatusesAreOfRecords) /\ [][GorootStep]_vars
\* Discovery took the GOROOT path and another one and has finished, and the
\* other one's status was received.
C7_Witness ==
    /\ "fmt" \in BagToSet(hist.taken)
    /\ DiscoveryDone
    /\ got.Statuses # EmptyBag

\* C8: in every reachable state a record without a VCS handle, which every
\* record with vcsError set is, has its Local and Remote fields at their
\* zero values, before and after computeVCSState, at the filter and at the
\* presenter, and computeVCSState has issued no adapter query for it.
C8_NoHandleNoState ==
    \A p \in Ptrs :
       /\ heap[p].vcsError # NoError => heap[p].vcs = Nil
       /\ heap[p].vcs = Nil =>
            /\ heap[p].Local = ZeroLocal
            /\ heap[p].Remote = ZeroRemote
            /\ hist.queries[p] = <<>>
\* A record with vcsError set went through computeVCSState, the filter and
\* the presenter, while a record with a handle got its state populated.
C8_Witness ==
    /\ \E p \in Ptrs :
         /\ heap[p].vcsError # NoError
         /\ hist.calls[p] = 1
         /\ hist.shown[p] = <<TRUE>>
         /\ hist.status[p] = 1
    /\ \E q \in Ptrs : heap[q].vcs # Nil /\ heap[q].Local # ZeroLocal

\* A record is computed at most once, filtered at most once and only after
\* its computeVCSState call, and on the record as that call left it.
FilteredOnceAfterCompute ==
    /\ \A p \in Ptrs :
         /\ hist.calls[p] <= 1
         /\ Len(hist.shown[p]) <= 1
         /\ hist.shown[p] # <<>> => hist.calls[p] = 1 /\ hist.shown[p] = <<ShouldShow(heap[p])>>
         /\ closed["processedFiltered"] /\ hist.uniq[p] = 1 => Len(hist.shown[p]) = 1
    /\ \A w \in Workers : pf[w].pc = "compute" => hist.shown[pf[w].repo] = <<>>
    /\ \A w \in Workers :
         pf[w].pc = "filter" => hist.calls[pf[w].repo] = 1 /\ hist.shown[pf[w].repo] = <<>>
\* A record that has been filtered is not written again.
NoWriteAfterFilter ==
    \A p \in Ptrs : hist.shown[p] # <<>> => heap'[p] = heap[p]
\* C9: every record sent on unique is filtered exactly once by the time
\* processedFiltered is closed, never more than once, only after its single
\* computeVCSState call has finished, and it is not written afterwards.
C9_FilterOnceAfterState == []FilteredOnceAfterCompute /\ [][NoWriteAfterFilter]_vars
\* State/Filter has finished; a record whose state was populated passed the
\* filter and a second record was filtered too.
C9_Witness ==
    /\ closed["processedFiltered"]
    /\ \E p \in Ptrs :
         /\ heap[p].Local.Status # ""
         /\ hist.queries[p] # <<>>
         /\ hist.shown[p] = <<TRUE>>
    /\ Len(heap) = 2
    /\ \A p \in Ptrs : Len(hist.shown[p]) = 1

\* A status is sent at most once per record and only for a record that
\* passed the filter; what was sent is the presenter applied to the record.
StatusOnlyIfShown ==
    /\ \A p \in Ptrs :
         /\ hist.status[p] <= 1
         /\ hist.status[p] = 1 => hist.shown[p] = <<TRUE>>
         /\ closed["Statuses"] /\ hist.shown[p] = <<TRUE>> => hist.status[p] = 1
         /\ hist.status[p] = 1 => Presenter(heap[p]) \in StatusesSent
    /\ StatusesAreOfRecords
    /\ Len(ch["Statuses"]) + BagCardinality(got.Statuses)
         = Cardinality({p \in Ptrs : hist.status[p] = 1})
    /\ closed["Statuses"] =>
         Len(ch["Statuses"]) + BagCardinality(got.Statuses)
            = Cardinality({p \in Ptrs : hist.shown[p] = <<TRUE>>})
\* A step of a presenterWorker writes no record, and what it takes from
\* processedFiltered it sends on, rendered, before taking the next.
PresentationProjects ==
    (pr' # pr) =>
       /\ heap' = heap
       /\ \A w \in Workers :
            (pr[w].pc = "send" /\ pr'[w].pc # "send") =>
               ch'["Statuses"] = Append(ch["Statuses"], Presenter(heap[pr[w].repo]))
\* C10: a record for which the filter returned true yields exactly one
\* string on Statuses once Statuses is closed and never more, a record for
\* which it returned false yields none, each string is the presenter applied
\* to its record, and Presentation writes no record; so the number of
\* statuses is the number of records that passed the filter.
C10_OneStatusPerShownRecord == []StatusOnlyIfShown /\ [][PresentationProjects]_vars
\* Statuses is closed; one record passed the filter and has its status, one
\* was rejected and has none.
C10_Witness ==
    /\ closed["Statuses"]
    /\ \E p \in Ptrs : hist.shown[p] = <<TRUE>> /\ hist.status[p] = 1
    /\ \E q \in Ptrs : hist.shown[q] = <<FALSE>> /\ hist.status[q] = 0

(***************************************************************************)
(* Properties of computeVCSState, over every combination of the adapter's  *)
(* answers.                                                                *)
(***************************************************************************)
\* computeVCSState is running on, or has returned from, a record with a handle.
CvsWithHandle == cvs.pc # 0 /\ cvs.s.r.vcs # Nil
CvsFinished == cvs.pc >= CvsReturned
CvsPos(name) == CHOOSE k \in DOMAIN CvsSteps : CvsSteps[k] = name
\* The statement of that query is behind the program counter.
CvsPast(name) == cvs.pc > CvsPos(name)
\* The calls of that adapter query issued so far.
CvsIssued(name) == {k \in DOMAIN cvs.s.calls : cvs.s.calls[k][1] = name}
RemoteError == cvs.env.Remote.err

\* C11: for a record with a VCS handle, from the statement after the
\* remote branch-and-revision query to the return of computeVCSState,
\* Remote.Branch is not empty, whatever that query and the cached default
\* branch query answered.
C11_RemoteBranchNeverEmpty ==
    (CvsWithHandle /\ CvsPast("RemoteBranchAndRevision")) => cvs.s.r.Remote.Branch # ""
\* computeVCSState returned after the remote query failed with an error of
\* no special kind and the cached default branch was unavailable too.
C11_Witness ==
    /\ CvsWithHandle /\ CvsFinished
    /\ RemoteError = "exit status 128"
    /\ cvs.env.Cached.err # NoError
    /\ CvsIssued("CachedRemoteDefaultBranch") # {}
    /\ cvs.s.r.Remote.Branch = NoRemoteDefaultBranch(cvs.s.r.vcs)

\* C12: when the remote branch-and-revision query answers ErrNoRemote, then
\* from the next statement on Remote.Branch is the kind's
\* NoRemoteDefaultBranch, Remote.Revision is empty and Remote.NotFound is
\* unset, and the Contains query is never issued.
C12_NoRemoteYieldsDefaultBranch ==
    (CvsWithHandle /\ RemoteError = ErrNoRemote) =>
       /\ CvsIssued("Contains") = {}
       /\ CvsPast("RemoteBranchAndRevision") =>
            /\ cvs.s.r.Remote.Branch = NoRemoteDefaultBranch(cvs.s.r.vcs)
            /\ cvs.s.r.Remote.Revision = ""
            /\ cvs.s.r.Remote.NotFound = Nil
\* computeVCSState returned for a Mercurial record whose adapter answered
\* ErrNoRemote beside a branch and a revision, and a local revision.
C12_Witness ==
    /\ CvsWithHandle /\ CvsFinished
    /\ RemoteError = ErrNoRemote
    /\ cvs.env.Remote.rev # ""
    /\ cvs.s.r.vcs = "hg"
    /\ cvs.s.r.Remote.Branch = "default"
    /\ cvs.s.r.Local.Revision # ""

\* C13: Remote.NotFound is the NotFoundError the remote branch-and-revision
\* query answered, set together with Remote.Branch = NoRemoteDefaultBranch,
\* and it is unset before that query and after any other answer.
C13_NotFoundRecorded ==
    CvsWithHandle =>
       IF CvsPast("RemoteBranchAndRevision") /\ RemoteError \in NotFoundErrors
       THEN /\ cvs.s.r.Remote.NotFound = RemoteError
            /\ cvs.s.r.Remote.Branch = NoRemoteDefaultBranch(cvs.s.r.vcs)
       ELSE cvs.s.r.Remote.NotFound = Nil
\* computeVCSState returned with the not-found value recorded.
C13_Witness ==
    /\ CvsWithHandle /\ CvsFinished
    /\ RemoteError \in NotFoundErrors
    /\ cvs.s.r.Remote.NotFound = "ref not found: X"
    /\ cvs.s.r.Remote.Branch = "master"

\* The RemoteContains query was issued and answered "not implemented".
RemoteContainsNotImplemented ==
    /\ CvsIssued("RemoteContains") # {}
    /\ ContainsNotImplemented(cvs.env.RemoteContains.err)
\* C14: when computeVCSState has returned and RemoteContains answered
\* "not implemented", Remote.ContainsLocalRevision is the negation of
\* Local.ContainsRemoteRevision if the local and remote revisions are not
\* empty and differ, and is false if they are equal or the remote one is empty.
C14_InferredFromContains ==
    (CvsWithHandle /\ CvsFinished /\ RemoteContainsNotImplemented) =>
       IF /\ cvs.s.r.Local.Revision # ""
          /\ cvs.s.r.Remote.Revision # ""
          /\ cvs.s.r.Local.Revision # cvs.s.r.Remote.Revision
       THEN cvs.s.r.Remote.ContainsLocalRevision = ~cvs.s.r.Local.ContainsRemoteRevision
       ELSE cvs.s.r.Remote.ContainsLocalRevision = FALSE
\* The answer was inferred: the revisions differ, the local copy does not
\* contain the remote revision, so the remote is taken to contain the local.
C14_Witness ==
    /\ CvsWithHandle /\ CvsFinished /\ RemoteContainsNotImplemented
    /\ cvs.s.r.Remote.Revision = "r2"
    /\ cvs.s.r.Local.Revision = "r1-dev"
    /\ ~cvs.s.r.Local.ContainsRemoteRevision
    /\ cvs.s.r.Remote.ContainsLocalRevision

\* The queries computeVCSState makes, by the name they are logged under.
CvsQueryNames ==
    {"Status", "Branch", "Stash", "RemoteURL", "RemoteBranchAndRevision",
     "CachedRemoteDefaultBranch", "LocalRevision", "Contains", "RemoteContains",
     "RepoRootForImportPath"}
\* The queries that stand under no test of an earlier query's result.
CvsUnconditional ==
    {"Status", "Branch", "Stash", "RemoteURL", "RemoteBranchAndRevision",
     "LocalRevision", "RepoRootForImportPath"}
\* The answer the LocalRevision query gave for the branch it was asked about.
LocalRevisionAnswer == cvs.env.LocalRevision[cvs.s.r.Remote.Branch]
ContainsFailed == CvsIssued("Contains") # {} /\ cvs.env.Contains.err # NoError
RemoteContainsFailed ==
    CvsIssued("RemoteContains") # {} /\ cvs.env.RemoteContains.err # NoError
\* A failed query whose result is written to one field leaves that field zero.
PlainFailuresLeaveZero ==
    /\ cvs.env.Status.err # NoError => cvs.s.r.Local.Status = ""
    /\ cvs.env.Branch.err # NoError => cvs.s.r.Local.Branch = ""
    /\ cvs.env.Stash.err # NoError => cvs.s.r.Local.Stash = ""
    /\ cvs.env.RemoteURL.err # NoError => cvs.s.r.Local.RemoteURL = ""
    /\ LocalRevisionAnswer.err # NoError => cvs.s.r.Local.Revision = ""
    /\ ContainsFailed => cvs.s.r.Local.ContainsRemoteRevision = FALSE
    /\ cvs.env.RepoRoot.err # NoError => cvs.s.r.Remote.RepoURL = ""
\* No query is issued twice, nothing is sent on Errors, and the call returns.
IssuedOnceAndQuietly ==
    /\ \A n \in CvsQueryNames : Cardinality(CvsIssued(n)) <= 1
    /\ ch["Errors"] = <<>> /\ hist.errs = EmptyBag
    /\ cvs.pc < CvsFiltered => ENABLED CvsNext
    /\ cvs.pc = CvsFiltered => cvs.shown = <<ShouldShow(cvs.s.r)>>

\* C15 (the claim as stated): when computeVCSState has returned for a
\* record with a handle, no query was issued twice, nothing was sent on
\* Errors, the record is filtered, every failed query has left its own
\* fields at their zero values, and no query was kept from being issued by
\* a failure: Contains is missing only if the remote query answered, and
\* RemoteContains only if the LocalRevision query answered.
C15_FailuresNeverSkipQueries ==
    (CvsWithHandle /\ CvsFinished) =>
       /\ IssuedOnceAndQuietly
       /\ PlainFailuresLeaveZero
       /\ RemoteError # NoError =>
            cvs.s.r.Remote.Branch = "" /\ cvs.s.r.Remote.Revision = ""
       /\ RemoteContainsFailed => cvs.s.r.Remote.ContainsLocalRevision = FALSE
       /\ \A n \in CvsUnconditional : CvsIssued(n) # {}
       /\ CvsIssued("Contains") = {} => RemoteError = NoError
       /\ CvsIssued("RemoteContains") = {} => LocalRevisionAnswer.err = NoError
\* The condition under which "not implemented" is turned into an answer.
Inferred ==
    /\ ContainsNotImplemented(cvs.env.RemoteContains.err)
    /\ cvs.s.r.Local.Revision # cvs.s.r.Remote.Revision
    /\ cvs.s.r.Remote.Revision # ""
\* C15 (amended): no query is issued twice, nothing is sent on Errors and
\* the record is filtered; the queries under no test are issued exactly
\* once whatever fails, Contains exactly when a remote revision was
\* obtained and RemoteContains exactly when a local revision was; a failed
\* query leaves its field zero, except that a failed remote query leaves
\* Remote.Revision empty and Remote.Branch at the fallback, and a failed
\* RemoteContains leaves false or the inferred answer.
C15_FailuresAbsorbed ==
    CvsWithHandle =>
       /\ IssuedOnceAndQuietly
       /\ CvsFinished =>
            /\ PlainFailuresLeaveZero
            /\ RemoteError # NoError =>
                 cvs.s.r.Remote.Branch # "" /\ cvs.s.r.Remote.Revision = ""
            /\ RemoteContainsFailed =>
                 cvs.s.r.Remote.ContainsLocalRevision =
                    (Inferred /\ ~cvs.s.r.Local.ContainsRemoteRevision)
            /\ \A n \in CvsUnconditional : Cardinality(CvsIssued(n)) = 1
            /\ CvsIssued("Contains") # {} <=> cvs.s.r.Remote.Revision # ""
            /\ CvsIssued("RemoteContains") # {} <=> cvs.s.r.Local.Revision # ""
\* Every query the record's computeVCSState call made has failed, the call
\* returned with Local at its zero value, and the record was filtered.
C15_Witness ==
    /\ CvsWithHandle
    /\ cvs.pc = CvsFiltered
    /\ cvs.shown = <<FALSE>>
    /\ cvs.env.Status.err # NoError /\ cvs.env.Branch.err # NoError
    /\ cvs.env.Stash.err # NoError /\ cvs.env.RemoteURL.err # NoError
    /\ RemoteError = "exit status 128" /\ cvs.env.Cached.err # NoError
    /\ LocalRevisionAnswer.err # NoError /\ cvs.env.RepoRoot.err # NoError
    /\ cvs.s.r.Local = ZeroLocal
    /\ Len(cvs.s.calls) = 8

(***************************************************************************)
(* Properties of the pipeline under callers that do not drain both streams.*)
(***************************************************************************)
\* C16 (the claim as stated): with a caller that reads Errors only once
\* Statuses is closed, the pipeline never comes to a halt before Statuses
\* is closed, how many unresolvable import paths the input may hold: as
\* long as Statuses is open some goroutine can take a step, so no
\* uniqueWorker is left blocked for ever on its send to Errors.
C16_ErrorsNeverStallStatuses == ~closed["Statuses"] => ENABLED SeqNext

\* The input is made of distinct roots whose records all pass the filter
\* (a record without a VCS handle does).
DistinctShownRoots ==
    /\ \A k \in DOMAIN batch : Classify(batch[k]) \in {"noVCS", "unsupported"}
    /\ \A j, k \in DOMAIN batch : RootKey(batch[j]) = RootKey(batch[k]) => j = k
NumTaken == BagCardinality(hist.taken)
\* Some worker of the three stages can take a step.
WorkerStep ==
    \E w \in StallWorkers : uniqueWorker(w) \/ processFilterWorker(w) \/ presenterWorker(w)
\* Every worker is at its send statement.
AllAtSend ==
    \A w \in StallWorkers : uw[w].pc = "send" /\ pf[w].pc = "send" /\ pr[w].pc = "send"
\* Every worker holds a record it has not sent on yet, and the three
\* channels between Discovery and the caller are full.
AllHolding ==
    /\ \A w \in StallWorkers :
         /\ uw[w].pc \in {"lock", "insert", "send"}
         /\ pf[w].pc \in {"compute", "filter", "send"}
         /\ pr[w].pc = "send"
    /\ \A c \in {"unique", "processedFiltered", "Statuses"} : Len(ch[c]) = ChanCap
\* C17: with a caller that never receives from Statuses and an input of
\* distinct roots that all pass the filter, Discovery never takes more
\* than StallBound import paths (the capacities of unique,
\* processedFiltered and Statuses plus one per worker of the three
\* stages); when it has taken that many, every channel after ImportPaths
\* is full and open, every worker holds a record, the only steps left to
\* the workers lead to their send statements, where all of them are
\* blocked, and none of unique, processedFiltered, Statuses and Errors is
\* closed.
C17_BackpressureStalls ==
    DistinctShownRoots =>
       /\ NumTaken <= StallBound
       /\ NumTaken = StallBound =>
            /\ AllHolding
            /\ \A c \in Chans \ {"ImportPaths"} : ~closed[c]
            /\ AllAtSend <=> ~ENABLED WorkerStep
\* Discovery has taken StallBound import paths, another one waits in
\* ImportPaths, and every worker is blocked on its send.
C17_Witness ==
    /\ DistinctShownRoots
    /\ NumTaken = StallBound
    /\ ch["ImportPaths"] # <<>>
    /\ AllAtSend
    /\ ~ENABLED WorkerStep

(***************************************************************************)
(* Ownership of a record.                                                  *)
(***************************************************************************)
\* The workers whose live local variable points to record p.
DiscoveryHolders(p) == {w \in Workers : uw[w].pc = "send" /\ uw[w].pkg = p}
StateFilterHolders(p) ==
    {w \in Workers : pf[w].pc \in {"compute", "filter", "send"} /\ pf[w].repo = p}
PresentationHolders(p) == {w \in Workers : pr[w].pc = "send" /\ pr[w].repo = p}
\* The places of channel c that hold p.
InChannel(c, p) == {k \in DOMAIN ch[c] : ch[c][k] = p}
\* A record is in one place: in the hands of one worker or in one channel.
SingleHolder ==
    \A p \in Ptrs :
       /\ Cardinality(DiscoveryHolders(p)) + Cardinality(StateFilterHolders(p))
            + Cardinality(PresentationHolders(p))
            + Cardinality(InChannel("unique", p))
            + Cardinality(InChannel("processedFiltered", p)) <= 1
       /\ hist.calls[p] <= 1
       /\ (PresentationHolders(p) # {} \/ InChannel("processedFiltered", p) # {}) =>
             hist.calls[p] = 1 /\ hist.shown[p] = <<TRUE>>
       /\ StateFilterDone /\ hist.uniq[p] = 1 => hist.calls[p] = 1
\* A record is written only by the processFilterWorker that holds it, in its
\* computeVCSState call, and only in Local and Remote.
SingleWriter ==
    \A p \in Ptrs :
       heap'[p] # heap[p] =>
          /\ \E w \in Workers :
                /\ pf[w].pc = "compute" /\ pf[w].repo = p
                /\ pf'[w].pc = "filter"
                /\ StateFilterHolders(p) = {w}
          /\ hist.calls[p] = 0 /\ hist'.calls[p] = 1
          /\ DiscoveryHolders(p) = {} /\ PresentationHolders(p) = {}
          /\ heap'[p] = [heap[p] EXCEPT !.Local = heap'[p].Local, !.Remote = heap'[p].Remote]
\* C18: a record is at every moment in the hands of at most one worker or
\* in one channel; it is computed by one processFilterWorker, once, which
\* is the only writer of its Local and Remote fields; a presenterWorker
\* gets it only after that call and the send that follows; and no step
\* writes a record that a uniqueWorker or a presenterWorker holds.
C18_SingleOwner == []SingleHolder /\ [][SingleWriter]_vars
\* One record, written by its computeVCSState call, is with a
\* presenterWorker while another is with a processFilterWorker that has
\* not called computeVCSState yet.
C18_Witness ==
    \E p, q \in Ptrs :
       /\ PresentationHolders(p) # {} /\ heap[p].Local # ZeroLocal
       /\ StateFilterHolders(q) # {} /\ hist.calls[q] = 0

\* The directory of the working copy whose root import path is root: the
\* directory under bpkg.SrcRoot in which vcs.FromDir found the repository,
\* or the package's own directory for a package under no VCS.
WorkingCopyDir(root) == "/gopath/src/" \o root
\* C19 (the claim as stated): the Path of every record is the directory of
\* the working copy of its root, and so is a function of the root alone,
\* whichever import path of the root was taken first and whichever worker
\* inserted the record.
C19_PathIsWorkingCopyDir == \A p \in Ptrs : heap[p].Path = WorkingCopyDir(heap[p].Root)

(***************************************************************************)
(* The order and the arguments of the queries of computeVCSState.          *)
(***************************************************************************)
\* The branch the adapter's answers resolve to: the queried one, the
\* cached default branch after an error of no special kind, else the
\* default branch of the VCS kind.
ResolvedBranch ==
    CASE RemoteError = NoError -> cvs.env.Remote.b
      [] RemoteError = ErrNoRemote \/ RemoteError \in NotFoundErrors ->
           NoRemoteDefaultBranch(cvs.s.r.vcs)
      [] OTHER ->
           IF cvs.env.Cached.err = NoError THEN cvs.env.Cached.val
           ELSE NoRemoteDefaultBranch(cvs.s.r.vcs)
\* Query name was issued before the call at position k of the log.
IssuedBefore(name, k) == \E j \in CvsIssued(name) : j < k
\* C20: the LocalRevision query is issued after the remote branch and
\* revision query, with the branch that query (or its fallbacks) resolved
\* to, which is the record's Remote.Branch; Contains is issued only with a
\* remote revision the remote query answered, RemoteContains only with a
\* local revision the LocalRevision query answered.
C20_QueriesUseResolvedValues ==
    CvsWithHandle =>
       /\ \A k \in CvsIssued("LocalRevision") :
            /\ IssuedBefore("RemoteBranchAndRevision", k)
            /\ cvs.s.calls[k][3] = ResolvedBranch
            /\ cvs.s.r.Remote.Branch = ResolvedBranch
       /\ \A k \in CvsIssued("Contains") :
            /\ RemoteError = NoError /\ cvs.env.Remote.rev # ""
            /\ cvs.s.calls[k][3] = cvs.env.Remote.rev
            /\ cvs.s.calls[k][4] = ResolvedBranch
       /\ \A k \in CvsIssued("RemoteContains") :
            /\ IssuedBefore("LocalRevision", k)
            /\ LocalRevisionAnswer.err = NoError /\ LocalRevisionAnswer.val # ""
            /\ cvs.s.calls[k][3] = LocalRevisionAnswer.val
            /\ cvs.s.calls[k][4] = ResolvedBranch
\* computeVCSState returned after the remote query failed and the cached
\* default branch was used: LocalRevision and RemoteContains were asked
\* about that branch, Contains was not issued.
C20_Witness ==
    /\ CvsWithHandle /\ CvsFinished
    /\ RemoteError = "exit status 128"
    /\ \E k \in CvsIssued("LocalRevision") : cvs.s.calls[k][3] = "main"
    /\ \E k \in CvsIssued("RemoteContains") :
         cvs.s.calls[k][3] = "r1-main" /\ cvs.s.calls[k][4] = "main"
    /\ CvsIssued("Contains") = {}

=============================================================================
